---- MODULE Spec2Model ----
(***************************************************************************)
(* Flavor Signal: the search page (src/src/app/layout.tsx, component Home  *)
(* and component Stars) and its client of the analyze endpoint             *)
(* (src/src/lib/api.ts).                                                   *)
(*                                                                         *)
(* Text typed into the two inputs is a sequence of characters, so that     *)
(* String.prototype.trim is computed and not assumed.  Ratings are numbers *)
(* with one decimal, held as tenths (45 is 4.5).  A nullable value is the  *)
(* empty tuple (null) or a one-element tuple holding the value.            *)
(*                                                                         *)
(* React state updates made in one synchronous run of a handler, or of the *)
(* continuation of onSubmit after its await, are committed together        *)
(* (React 18 batching), so each such run is one action.                    *)
(***************************************************************************)
EXTENDS Integers, Sequences, FiniteSets, TLC

VARIABLES location, item, data, loading, err, calls, event

vars == <<location, item, data, loading, err, calls, event>>

(* ------------------------------ bounds --------------------------------- *)

\* longest text typed into an input
MaxLen == 2
\* most places the supplier returns for one request
MaxPlaces == 3
\* most reviews fetched for one place
MaxReviews == 2
\* ratings (in tenths) the Stars specification ranges over: 0..MaxTenths
MaxTenths == 70

(* ------------------------------ values --------------------------------- *)

Null == <<>>

Some(v) == <<v>>

\* characters a user types: a whitespace character and a letter
Chars == {" ", "a"}

RECURSIVE TextsOfLen(_)
TextsOfLen(n) ==
  IF n = 0 THEN {<<>>}
  ELSE {Append(s, c) : s \in TextsOfLen(n - 1), c \in Chars}

Texts == UNION {TextsOfLen(n) : n \in 0..MaxLen}

IsSpace(c) == c = " "

RECURSIVE TrimStart(_)
TrimStart(s) ==
  IF s = <<>> THEN s
  ELSE IF IsSpace(Head(s)) THEN TrimStart(Tail(s)) ELSE s

RECURSIVE TrimEnd(_)
TrimEnd(s) ==
  IF s = <<>> THEN s
  ELSE IF IsSpace(s[Len(s)]) THEN TrimEnd(SubSeq(s, 1, Len(s) - 1)) ELSE s

\* String.prototype.trim
Trim(s) == TrimEnd(TrimStart(s))

(* ------------------------------ Stars ---------------------------------- *)

\* the upper clamp of a rating, 5, in tenths
MaxRating == 50

\* the number of stars drawn
StarCount == 5

Min2(a, b) == IF a < b THEN a ELSE b

Max2(a, b) == IF a > b THEN a ELSE b

\* typeof rating === "number" ? Math.max(0, Math.min(5, rating)) : null
Clamped(rating) ==
  IF rating # Null THEN Some(Max2(0, Min2(MaxRating, rating[1]))) ELSE Null

\* the truthiness of r in "r ? ... : ...": null and 0 are falsy
Truthy(r) == r # Null /\ r[1] # 0

\* Math.round of a non-negative number of tenths
Round(t) == (t + 5) \div 10

\* Number.prototype.toFixed(1) of a non-negative number of tenths
ToFixed1(t) == ToString(t \div 10) \o "." \o ToString(t % 10)

\* the dash shown in place of the rating (an em dash in the source)
Dash == "-"

\* what the Stars component renders for a rating prop: the aria-label, the
\* five stars (on or off) and the text beside them
Stars(rating) ==
  LET r == Clamped(rating)
      full == IF Truthy(r) THEN Round(r[1]) ELSE 0
  IN [ label |-> IF Truthy(r)
                   THEN "Rating " \o ToFixed1(r[1]) \o " out of 5"
                   ELSE "No rating",
       on    |-> [i \in 0..(StarCount - 1) |-> i < full],
       text  |-> IF Truthy(r) THEN ToFixed1(r[1]) ELSE Dash ]

(* --------------------- the analyze endpoint (server) ------------------- *)

\* the similarity threshold of the Semantic Matcher, in hundredths
Tau == 50

\* similarity scores a review can get, in hundredths
Scores == {Tau - 1, Tau}

Relevant(score) == score >= Tau

RECURSIVE CountRelevant(_)
CountRelevant(reviews) ==
  IF reviews = <<>> THEN 0
  ELSE (IF Relevant(Head(reviews)) THEN 1 ELSE 0) + CountRelevant(Tail(reviews))

NoMentions == "Not enough mentions."

\* the AnalysisResult the orchestrator builds for one place
AnalyzePlace(p) ==
  LET m == CountRelevant(p.reviews)
  IN [ place           |-> [title |-> p.title, rating |-> p.rating],
       reviews_fetched |-> Len(p.reviews),
       mentions        |-> m,
       summary         |-> IF m = 0 THEN NoMentions ELSE "summary" ]

\* the AnalysisResponse: one result per place, in the order of discovery
Orchestrate(payload, places) ==
  [ location |-> payload.location,
    item     |-> payload.item,
    results  |-> [i \in 1..Len(places) |-> AnalyzePlace(places[i])] ]

RECURSIVE ReviewsOfLen(_)
ReviewsOfLen(n) ==
  IF n = 0 THEN {<<>>}
  ELSE {Append(s, c) : s \in ReviewsOfLen(n - 1), c \in Scores}

ReviewSeqs == UNION {ReviewsOfLen(n) : n \in 0..MaxReviews}

\* the places the supplier returns: place i is the i-th place discovered,
\* with the rating p[i][1] and the reviews p[i][2]
Places(n, p) ==
  [i \in 1..n |-> [title |-> i, rating |-> p[i][1], reviews |-> p[i][2]]]

\* the form specification: every text of the inputs, no place or one place
FormTexts == Texts

FormPlaces == [counts |-> {0, 1}, ratings |-> {Null}, reviews |-> {<<Tau>>}]

\* the results specification: every list of places, an empty or a filled input
ResultsTexts == {<<>>, <<"a">>}

ResultsPlaces == [counts |-> 0..MaxPlaces, ratings |-> {<<45>>}, reviews |-> ReviewSeqs]

\* the Stars specification: one place of every rating, missing or in
\* 0..MaxTenths (a Place's rating is 0..5; above 5 the clamp acts)
StarsRatings == {Null} \cup {<<t>> : t \in 0..MaxTenths}

StarsPlaces == [counts |-> {1}, ratings |-> StarsRatings, reviews |-> {<<Tau>>}]

(* ------------------------------ api.ts --------------------------------- *)

Statuses == {200, 404, 500}

StatusTexts == {"", "Not Found"}

\* the bodies of a response that is not OK: empty, a text, and one whose
\* read fails
TextBodies ==
  { [readable |-> TRUE, text |-> ""],
    [readable |-> TRUE, text |-> "boom"],
    [readable |-> FALSE, text |-> "boom"] }

\* Response.ok
Ok(status) == status \in 200..299

\* a call of analyze before fetch has answered
NoResponse ==
  [status |-> 0, statusText |-> "", readable |-> TRUE, text |-> "", json |-> Null]

\* a response whose body is JSON text (json holds what it parses to) or is
\* not (json is null)
JsonResponse(status, statusText, json) ==
  [status |-> status, statusText |-> statusText, readable |-> TRUE, text |-> "",
   json |-> json]

\* a response whose body is plain text
TextResponse(status, statusText, body) ==
  [status |-> status, statusText |-> statusText, readable |-> body.readable,
   text |-> body.text, json |-> Null]

\* ApiError with a fault: text ?? res.statusText
ApiErrorNullish(status, statusText, text) ==
  [ hasMessage |-> TRUE,
    message    |-> "API error (" \o ToString(status) \o "): " \o text ]

\* new Error(`API error (${res.status}): ${text || res.statusText}`)
ApiError(status, statusText, text) ==
  [ hasMessage |-> TRUE,
    message    |-> "API error (" \o ToString(status) \o "): "
                     \o (IF text # "" THEN text ELSE statusText) ]

\* what fetch can reject with: an Error, an Error with an empty message, and
\* a value with no message
Rejections ==
  { [hasMessage |-> TRUE, message |-> "Failed to fetch"],
    [hasMessage |-> TRUE, message |-> ""],
    [hasMessage |-> FALSE, message |-> ""] }

\* what Response.json rejects with when the body is not JSON
SyntaxError == [hasMessage |-> TRUE, message |-> "Unexpected token"]

(* ------------------------------ Home ----------------------------------- *)

Init ==
  /\ location = <<>>
  /\ item = <<>>
  /\ data = Null
  /\ loading = FALSE
  /\ err = Null
  /\ calls = <<>>
  /\ event = "init"

\* useMemo(() => location.trim().length > 0 && item.trim().length > 0)
CanSubmit == Len(Trim(location)) > 0 /\ Len(Trim(item)) > 0

\* Accepts with a fault: the guard without "|| loading"
AcceptsWhileLoading == CanSubmit

\* the guard of onSubmit: not (!canSubmit || loading)
Accepts == CanSubmit /\ ~loading

\* Payload with a fault: the fields as typed
PayloadAsTyped == [location |-> location, item |-> item]

\* { location: location.trim(), item: item.trim() }
Payload == [location |-> Trim(location), item |-> Trim(item)]

\* Discard with a fault: the previous error and response are kept
DiscardNothing == UNCHANGED <<err, data>>

\* setErr(null); setData(null)
Discard == err' = Null /\ data' = Null

SetLocation(v) ==
  /\ location' = v
  /\ event' = "change"
  /\ UNCHANGED <<item, data, loading, err, calls>>

SetItem(v) ==
  /\ item' = v
  /\ event' = "change"
  /\ UNCHANGED <<location, data, loading, err, calls>>

OnSubmit ==
  /\ event' = "submit"
  /\ IF Accepts
       THEN /\ Discard
            /\ loading' = TRUE
            /\ calls' = Append(calls, [payload |-> Payload, pc |-> "fetch",
                                       res |-> NoResponse])
       ELSE UNCHANGED <<err, data, loading, calls>>
  /\ UNCHANGED <<location, item>>

\* the pending calls without the i-th, whose onSubmit has run to its end
Without(i) == [k \in 1..(Len(calls) - 1) |-> IF k < i THEN calls[k] ELSE calls[k + 1]]

\* ex?.message ?? "Something went wrong."
MessageOf(ex) == IF ex.hasMessage THEN ex.message ELSE "Something went wrong."

\* Catch with a fault: no finally block
CatchKeepsLoading(i, ex) ==
  /\ err' = Some(MessageOf(ex))
  /\ calls' = Without(i)
  /\ event' = "settle"
  /\ UNCHANGED <<location, item, data, loading>>

\* the catch and finally blocks of onSubmit
Catch(i, ex) ==
  /\ err' = Some(MessageOf(ex))
  /\ loading' = FALSE
  /\ calls' = Without(i)
  /\ event' = "settle"
  /\ UNCHANGED <<location, item, data>>

\* Resolve with a fault: no finally block
ResolveKeepsLoading(i, resp) ==
  /\ data' = Some(resp)
  /\ calls' = Without(i)
  /\ event' = "settle"
  /\ UNCHANGED <<location, item, err, loading>>

\* the rest of the try block, and the finally block, of onSubmit
Resolve(i, resp) ==
  /\ data' = Some(resp)
  /\ loading' = FALSE
  /\ calls' = Without(i)
  /\ event' = "settle"
  /\ UNCHANGED <<location, item, err>>

\* fetch resolves with a response: analyze goes on to res.text() or res.json()
FetchResolves(i, res) ==
  /\ calls[i].pc = "fetch"
  /\ calls' = [calls EXCEPT ![i] = [@ EXCEPT !.pc = IF Ok(res.status) THEN "json" ELSE "text",
                                             !.res = res]]
  /\ event' = "network"
  /\ UNCHANGED <<location, item, data, loading, err>>

\* fetch rejects: analyze rejects with the same exception
FetchRejects(i, ex) ==
  /\ calls[i].pc = "fetch"
  /\ Catch(i, ex)

\* res.text().catch(() => "") settles and analyze throws the Error
TextSettles(i) ==
  /\ calls[i].pc = "text"
  /\ Catch(i, ApiError(calls[i].res.status, calls[i].res.statusText,
                       IF calls[i].res.readable THEN calls[i].res.text ELSE ""))

\* res.json() resolves with the parsed body
JsonResolves(i) ==
  /\ calls[i].pc = "json"
  /\ calls[i].res.json # Null
  /\ Resolve(i, calls[i].res.json[1])

\* res.json() rejects: the body is not JSON
JsonRejects(i) ==
  /\ calls[i].pc = "json"
  /\ calls[i].res.json = Null
  /\ Catch(i, SyntaxError)

\* the pending calls that wait at an await of analyze
At(pc) == {i \in 1..Len(calls) : calls[i].pc = pc}

\* the steps of the network and of the promises that wait for it: the
\* server answers OK with the response it built for some places, or with a
\* body that is not JSON, or answers with another status and a text
Network(places) ==
  \/ \E i \in At("fetch"), st \in {x \in Statuses : Ok(x)}, n \in places.counts :
       \E p \in [1..n -> places.ratings \X places.reviews] :
         FetchResolves(i, JsonResponse(st, "",
                            Some(Orchestrate(calls[i].payload, Places(n, p)))))
  \/ \E i \in At("fetch"), st \in {x \in Statuses : Ok(x)} :
       FetchResolves(i, JsonResponse(st, "", Null))
  \/ \E i \in At("fetch"), st \in {x \in Statuses : ~Ok(x)},
        t \in StatusTexts, b \in TextBodies :
       FetchResolves(i, TextResponse(st, t, b))
  \/ \E i \in At("fetch"), ex \in Rejections : FetchRejects(i, ex)
  \/ \E i \in At("text") : TextSettles(i)
  \/ \E i \in At("json") : JsonResolves(i)
  \/ \E i \in At("json") : JsonRejects(i)

\* the values one keystroke gives an input holding s: a character typed at
\* its end, or its last character deleted (any other edit, a paste say,
\* gives a value that keystrokes reach too)
Keystrokes(s, texts) ==
  {v \in texts : \/ Len(v) = Len(s) + 1 /\ SubSeq(v, 1, Len(s)) = s
                 \/ Len(s) = Len(v) + 1 /\ SubSeq(s, 1, Len(v)) = v}

NextOver(texts, places) ==
  \/ \E v \in Keystrokes(location, texts) : SetLocation(v)
  \/ \E v \in Keystrokes(item, texts) : SetItem(v)
  \/ OnSubmit
  \/ Network(places)

Next == NextOver(FormTexts, FormPlaces)

Spec == Init /\ [][Next]_vars

\* every request is answered: fetch settles, and so do the reads of the body
FairSpec == Spec /\ WF_vars(Network(FormPlaces))

ResultsNext == NextOver(ResultsTexts, ResultsPlaces)

ResultsSpec == Init /\ [][ResultsNext]_vars

StarsNext == NextOver(ResultsTexts, StarsPlaces)

StarsSpec == Init /\ [][StarsNext]_vars

(* ------------------------------ the view ------------------------------- *)

\* {err && (...)}: the error box
ErrorShown == err # Null /\ err[1] # ""

\* {loading && (...)}: the skeleton cards
SkeletonShown == loading

\* {!loading && data && (...)}: the results header
ResultsShown == ~loading /\ data # Null

\* the count in the results header
MetaCount == Len(data[1].results)

\* data.results.length === 0 ? "No results returned." : the grid
EmptyShown == ResultsShown /\ Len(data[1].results) = 0

\* Mentioned with a fault: r.mentions >= 0
MentionedOrNot(r) == r.mentions >= 0

\* r => r.mentions > 0
Mentioned(r) == r.mentions > 0

\* Array.prototype.filter with Mentioned
RECURSIVE Filter(_)
Filter(rs) ==
  IF rs = <<>> THEN <<>>
  ELSE IF Mentioned(Head(rs)) THEN <<Head(rs)>> \o Filter(Tail(rs))
       ELSE Filter(Tail(rs))

\* Card with a fault: the two pills swapped
CardSwapped(r) ==
  [ title    |-> r.place.title,
    stars    |-> Stars(r.place.rating),
    mentions |-> r.reviews_fetched,
    fetched  |-> r.mentions,
    summary  |-> r.summary ]

\* the article rendered for one result
Card(r) ==
  [ title    |-> r.place.title,
    stars    |-> Stars(r.place.rating),
    mentions |-> r.mentions,
    fetched  |-> r.reviews_fetched,
    summary  |-> r.summary ]

\* the cards of the grid, in the order they are rendered
Cards ==
  IF ResultsShown /\ Len(data[1].results) # 0
    THEN LET shown == Filter(data[1].results)
         IN [k \in 1..Len(shown) |-> Card(shown[k])]
    ELSE <<>>

(* ------------------------------ properties ----------------------------- *)

\* a text of whitespace only: what is left of it after trimming is empty
Blank(s) == \A k \in 1..Len(s) : s[k] = " "

\* a text that is not empty and neither starts nor ends with whitespace
Clean(s) == s # <<>> /\ s[1] # " " /\ s[Len(s)] # " "

\* s is t with whitespace, and nothing else, before and after it
Surrounds(s, t) ==
  \E a \in 0..Len(s) :
    /\ a + Len(t) <= Len(s)
    /\ SubSeq(s, a + 1, a + Len(t)) = t
    /\ \A k \in 1..Len(s) : (k <= a \/ k > a + Len(t)) => s[k] = " "

\* what onSubmit leaves alone when it returns early
Untouched == UNCHANGED <<err, data, loading, calls>>

\* C1: every request onSubmit issues carries a location and an item that are
\* not empty and have no whitespace at either end, namely the two inputs
\* without the whitespace around them; and a submit while the location or
\* the item is empty after trimming issues no request and changes none of
\* err, data and loading.
C1_RequestsCarryTrimmedFields ==
  /\ [](\A i \in 1..Len(calls) :
          Clean(calls[i].payload.location) /\ Clean(calls[i].payload.item))
  /\ [][Len(calls') > Len(calls) =>
          /\ event' = "submit"
          /\ Surrounds(location, calls'[Len(calls')].payload.location)
          /\ Surrounds(item, calls'[Len(calls')].payload.item)]_vars
  /\ [][(event' = "submit" /\ (Blank(location) \/ Blank(item))) => Untouched]_vars

\* a request was just issued from a location typed with whitespace around it
C1_Witness ==
  /\ event = "submit"
  /\ Len(calls) = 1
  /\ Len(location) > Len(calls[1].payload.location)
  /\ calls[1].payload.location = <<"a">>

\* C4: a request that succeeds with an empty results sequence ends with
\* loading false, err null and the "No results returned." message shown,
\* with no error box and no card; the page stays so while that response is
\* held.
C4_EmptyResultsShowEmptyState ==
  /\ [][\A i \in 1..Len(calls) :
          (/\ calls[i].pc = "json"
           /\ calls[i].res.json # Null
           /\ Len(calls') < Len(calls)
           /\ calls[i].res.json[1].results = <<>>)
          => (data' = calls[i].res.json /\ ~loading' /\ err' = Null)]_vars
  /\ []((data # Null /\ data[1].results = <<>>) =>
          (~loading /\ err = Null /\ EmptyShown /\ ~ErrorShown /\ Cards = <<>>))

\* an empty response has just been accepted and the empty state is shown
C4_Witness ==
  event = "settle" /\ data # Null /\ data[1].results = <<>> /\ EmptyShown

\* the message analyze throws for a response that is not OK
ExpectedApiMessage(res) ==
  "API error (" \o ToString(res.status) \o "): "
    \o (IF res.readable /\ res.text # "" THEN res.text ELSE res.statusText)

\* C5: a response whose status is not in 200..299 never has its body parsed;
\* analyze rejects with "API error (<status>): " followed by the body text,
\* or by the status text when the body is empty or cannot be read, and
\* onSubmit sets err to that message, leaves data null and sets loading to
\* false.
C5_NonOkResponseBecomesError ==
  /\ [](\A i \in 1..Len(calls) :
          (calls[i].pc # "fetch" /\ calls[i].res.status \notin 200..299)
          => calls[i].pc = "text")
  /\ [][\A i \in 1..Len(calls) :
          (calls[i].pc = "text" /\ Len(calls') < Len(calls))
          => (/\ err' = Some(ExpectedApiMessage(calls[i].res))
              /\ data' = Null
              /\ ~loading')]_vars

\* a 404 with an empty body has become the error of its status text
C5_Witness ==
  event = "settle" /\ ~loading /\ data = Null /\ err = Some("API error (404): Not Found")

\* C6: err and data are never both non-null; while loading is true, or a
\* request is in flight, both are null; and a submit that issues a request
\* discards the previous response and the previous error in the same step.
C6_ErrAndDataExclusive ==
  /\ [](~(err # Null /\ data # Null))
  /\ []((loading \/ calls # <<>>) => (err = Null /\ data = Null))
  /\ [][Len(calls') > Len(calls) => (err' = Null /\ data' = Null /\ loading')]_vars

\* a request is in flight, with nothing of an earlier one shown
C6_Witness ==
  loading /\ Len(calls) = 1 /\ calls[1].pc = "json" /\ err = Null /\ data = Null

\* C7: at most one analyze request is in flight, and a submit while loading
\* is true issues no request and leaves err, data and loading unchanged.
C7_OneRequestInFlight ==
  /\ [](Len(calls) <= 1)
  /\ [][(event' = "submit" /\ loading) => Untouched]_vars

\* a submit has arrived while the one request was waiting for its body
C7_Witness ==
  event = "submit" /\ loading /\ Len(calls) = 1 /\ calls[1].pc = "text"

\* the messages a failed call can leave in err
FailureMessages(c) ==
  IF c.pc = "text" THEN {ExpectedApiMessage(c.res)}
  ELSE IF c.pc = "json" THEN {"Unexpected token"}
  ELSE {"Failed to fetch", "", "Something went wrong."}

\* C8: a submit with both fields filled in, while loading is false, sets
\* loading to true; the step in which the request settles sets loading to
\* false, with data holding the response when it succeeded and, when it
\* failed, data null and err holding the error's message or "Something went
\* wrong."; and, every request being answered, loading true leads to loading
\* false.
C8_LoadingEndsWithDataOrErr ==
  /\ [][(event' = "submit" /\ ~loading /\ ~Blank(location) /\ ~Blank(item))
          => (loading' /\ Len(calls') = Len(calls) + 1)]_vars
  /\ [][\A i \in 1..Len(calls) :
          Len(calls') < Len(calls) =>
            /\ ~loading'
            /\ IF calls[i].pc = "json" /\ calls[i].res.json # Null
                 THEN data' = calls[i].res.json /\ err' = Null
                 ELSE /\ data' = Null
                      /\ err' # Null
                      /\ err'[1] \in FailureMessages(calls[i])]_vars
  /\ (loading ~> ~loading)

\* a request has failed with a value that has no message
C8_Witness ==
  event = "settle" /\ ~loading /\ data = Null /\ err = Some("Something went wrong.")

\* C2: every result held in data, and every card rendered from it, has
\* mentions <= reviews_fetched.
C2_MentionsAtMostFetched ==
  data # Null =>
    /\ \A i \in 1..Len(data[1].results) :
         data[1].results[i].mentions <= data[1].results[i].reviews_fetched
    /\ \A k \in 1..Len(Cards) : Cards[k].mentions <= Cards[k].fetched

\* a card is shown for a place some of whose reviews, not all, mention the item
C2_Witness ==
  \E k \in 1..Len(Cards) : Cards[k].mentions > 0 /\ Cards[k].mentions < Cards[k].fetched

\* the card shows the result unchanged
Shows(card, r) ==
  /\ card.title = r.place.title
  /\ card.mentions = r.mentions
  /\ card.fetched = r.reviews_fetched
  /\ card.summary = r.summary

\* C3: the cards are the results with mentions > 0, each once, in the order
\* of data.results: the k-th card shows the k-th such result.
C3_CardsAreMentionedResultsInOrder ==
  ResultsShown =>
    LET rs == data[1].results
        S  == {i \in 1..Len(rs) : rs[i].mentions > 0}
    IN /\ Len(Cards) = Cardinality(S)
       /\ \A k \in 1..Len(Cards) :
            \E i \in S : Cardinality({j \in S : j <= i}) = k /\ Shows(Cards[k], rs[i])

\* of three places the second has no mention: the cards are the first and
\* the third, in that order
C3_Witness ==
  /\ ResultsShown
  /\ Len(data[1].results) = 3
  /\ data[1].results[2].mentions = 0
  /\ Len(Cards) = 2
  /\ Cards[1].title = 1
  /\ Cards[2].title = 3

\* C9: with a response held and loading false, the results section shows a
\* card or the "No results returned." message, and the count of the header
\* is the number of cards.
C9_HeaderCountIsCardCount ==
  ResultsShown =>
    /\ Len(Cards) >= 1 \/ EmptyShown
    /\ MetaCount = Len(Cards)

\* the number of stars that are on
Filled(s) == Cardinality({i \in DOMAIN s.on : s.on[i]})

\* what C10 says Stars renders for a rating
StarsAsClaimed(rating, s) ==
  IF rating # Null
    THEN LET c == IF rating[1] < 0 THEN 0 ELSE IF rating[1] > 50 THEN 50 ELSE rating[1]
         IN /\ Filled(s) = (c + 5) \div 10
            /\ s.text = ToString(c \div 10) \o "." \o ToString(c % 10)
            /\ s.label # "No rating"
    ELSE s.label = "No rating" /\ s.text = "-" /\ Filled(s) = 0

\* C10: the stars of every card are those of its place's rating: a numeric
\* rating clamped into 0..5, round(clamped) stars on and the clamped value
\* as text; only a missing rating shown as "No rating", with a dash and no
\* star on.
C10_StarsOfEveryRating ==
  \A k \in 1..Len(Cards) :
    \E i \in 1..Len(data[1].results) :
      /\ data[1].results[i].place.title = Cards[k].title
      /\ StarsAsClaimed(data[1].results[i].place.rating, Cards[k].stars)

====
